---- MODULE Spec2Model ----
(***************************************************************************)
(* Model of scoped-env (src/lib.rs): ScopedEnv::set captures the current   *)
(* value of an environment variable, installs a new one and returns a      *)
(* guard; Drop for ScopedEnv writes the captured value back, or removes    *)
(* the variable when nothing was captured.                                 *)
(*                                                                         *)
(* The process environment is a table from the valid names to Option       *)
(* values.  Every std::env call is one atomic step (std serialises them    *)
(* with its environment lock); ScopedEnv::set itself is two steps, the     *)
(* read of line 30 and the write of line 31, and other threads or other    *)
(* code may run between them.                                              *)
(*                                                                         *)
(* Strings are tuples of characters, "NUL" standing for the byte 0.        *)
(***************************************************************************)
EXTENDS Integers, Sequences, FiniteSets, TLC

\* ---------------------------------------------------------------- bounds
MaxGuards == 2      \* calls of ScopedEnv::set per behaviour
MaxDepth == 2       \* nesting depth of blocks in one thread
MaxMutations == 1   \* writes to the environment by code other than guards

\* ---------------------------------------------------------------- inputs
NameF == <<"F">>
NameG == <<"G">>
NameSet == {NameF, NameG, <<>>, <<"F", "=">>, <<"NUL">>}
ValueSet == {<<>>, <<"x">>, <<"x", "NUL">>}

Threads == {"t1", "t2"}
MainThreads == {"t1"}

\* Option<OsString>
None == [tag |-> "None"]
Some(v) == [tag |-> "Some", val |-> v]

Contains(s, c) == \E i \in 1..Len(s) : s[i] = c

\* std::env::set_var panics if the key is empty, contains '=' or NUL, or
\* if the value contains NUL.
ValidName(name) == Len(name) > 0 /\ ~Contains(name, "=") /\ ~Contains(name, "NUL")
ValidValue(value) == ~Contains(value, "NUL")

EnvNames == {n \in NameSet : ValidName(n)}
EnvValues == {v \in ValueSet : ValidValue(v)}
OptionSet == {None} \cup {Some(v) : v \in EnvValues}

VARIABLES
    env,        \* the process environment: EnvNames -> Option
    guards,     \* the ScopedEnv values ever constructed, by id: name, old_value
    scopes,     \* per thread, the stack of blocks, each the guards it owns
    mode,       \* per thread, where its control is
    pending,    \* per thread, the locals of a ScopedEnv::set in progress
    meta,       \* history, per guard: what it saw and who else wrote its name
    relLog,     \* history: the environment writes made by drop, in order
    last,       \* history: the last operation on the environment
    mutations,  \* history: number of writes by other code
    env0        \* history: the environment the program started with

vars == <<env, guards, scopes, mode, pending, meta, relLog, last, mutations, env0>>

NoPending == [active |-> FALSE]

GuardIds == 1..Len(guards)

\* a guard is owned by a block until it is dropped or moved into drop()
InScope(g) == \E t \in Threads : \E i \in 1..Len(scopes[t]) :
                  \E j \in 1..Len(scopes[t][i]) : scopes[t][i][j] = g

PendingCount == Cardinality({t \in Threads : pending[t].active})

\* ------------------------------------------------------------- std::env
\* mutant: a variable holding the empty string reads as unset
VarOsEmptyIsNone(e, name) ==
    IF ValidName(name) /\ e[name] # Some(<<>>) THEN e[name] ELSE None

\* env::var_os(name): None for an unset variable and for an invalid name
VarOs(e, name) == IF ValidName(name) THEN e[name] ELSE None

\* env::set_var(name, value)
SetVar(e, name, value) == [e EXCEPT ![name] = Some(value)]

\* mutant: the whole environment is cleared
RemoveVarClear(e, name) == [n \in DOMAIN e |-> None]

\* env::remove_var(name)
RemoveVar(e, name) == [e EXCEPT ![name] = None]

\* mutant: nothing is rejected
SetVarAcceptsAll(name, value) == TRUE

\* whether env::set_var(name, value) returns rather than panics
SetVarAccepts(name, value) == ValidName(name) /\ ValidValue(value)

\* whether env::remove_var(name) returns rather than panics
RemoveVarAccepts(name) == ValidName(name)

\* ------------------------------------------------------------ ScopedEnv
\* mutant: nothing is captured, the guard always removes
CaptureOldNone(e, name) == None

\* mutant: the state from the start of the program is captured, not the
\* current one
CaptureOldFirst(e, name) == IF ValidName(name) THEN env0[name] ELSE None

\* line 30: let old_value = env::var_os(name.as_ref());
CaptureOld(e, name) == VarOs(e, name)

\* mutant: the write is not made at acquire time
InstallNewDeferred(e, name, value) == e

\* line 31: env::set_var(name.as_ref(), value);
InstallNew(e, name, value) == SetVar(e, name, value)

\* line 32: Self { name, old_value }
NewGuard(name, old_value) == [name |-> name, old_value |-> old_value]

\* mutant: as_ref exposes the captured value, not the name
AsRefOldValue(guard) ==
    IF guard.old_value.tag = "Some" THEN guard.old_value.val ELSE <<>>

\* AsRef<OsStr> for ScopedEnv: as_ref
AsRefName(guard) == guard.name

\* mutant: an uncaptured variable is emptied, not removed
DropOpsEmptyString(guard) ==
    IF guard.old_value.tag = "Some"
    THEN <<[op |-> "set", name |-> guard.name, value |-> guard.old_value.val]>>
    ELSE <<[op |-> "set", name |-> guard.name, value |-> <<>>]>>

\* mutant: the variable is removed whatever was captured
DropOpsRemoveOnly(guard) == <<[op |-> "remove", name |-> guard.name]>>

\* mutant: nothing is done when nothing was captured
DropOpsSkipAbsent(guard) ==
    IF guard.old_value.tag = "Some"
    THEN <<[op |-> "set", name |-> guard.name, value |-> guard.old_value.val]>>
    ELSE <<>>

\* mutant: nothing is done when a value was captured
DropOpsSkipPresent(guard) ==
    IF guard.old_value.tag = "Some"
    THEN <<>>
    ELSE <<[op |-> "remove", name |-> guard.name]>>

\* mutant: the arguments of the write-back are swapped
DropOpsSwapped(guard) ==
    IF guard.old_value.tag = "Some"
    THEN <<[op |-> "set", name |-> guard.old_value.val, value |-> guard.name]>>
    ELSE <<[op |-> "remove", name |-> guard.name]>>

\* Drop for ScopedEnv: the environment operations drop performs
DropOps(guard) ==
    IF guard.old_value.tag = "Some"
    THEN <<[op |-> "set", name |-> AsRefName(guard), value |-> guard.old_value.val]>>
    ELSE <<[op |-> "remove", name |-> AsRefName(guard)]>>

ApplyOp(e, o) == IF o.op = "set" THEN SetVar(e, o.name, o.value)
                 ELSE RemoveVar(e, o.name)

RECURSIVE ApplyOps(_, _)
ApplyOps(e, ops) == IF ops = <<>> THEN e
                    ELSE ApplyOps(ApplyOp(e, Head(ops)), Tail(ops))

\* Drop for ScopedEnv: whether a call drop makes panics
DropPanics(guard) ==
    \E i \in 1..Len(DropOps(guard)) :
        LET o == DropOps(guard)[i]
        IN IF o.op = "set" THEN ~SetVarAccepts(o.name, o.value)
           ELSE ~RemoveVarAccepts(o.name)

\* mutant: a variable that other code removed meanwhile is left removed
DropEnvKeepRemoved(e, guard) ==
    IF e[guard.name] = None THEN e ELSE ApplyOps(e, DropOps(guard))

\* Drop for ScopedEnv: the environment after drop
DropEnv(e, guard) == ApplyOps(e, DropOps(guard))

\* ------------------------------------------------------------- history
\* the state of name as an observer reads it
Lookup(name) == IF name \in EnvNames THEN env[name] ELSE None

\* the largest member of a set of guard ids, 0 for the empty set
MaxOf(S) == IF S = {} THEN 0
            ELSE LET x == CHOOSE y \in S : \A z \in S : z <= y IN x

Released(g) == \E i \in 1..Len(relLog) : relLog[i].g = g
Active(g) == g \in GuardIds /\ ~Released(g)
Releases(g) == Cardinality({i \in 1..Len(relLog) : relLog[i].g = g})

\* the innermost guard on name that is still alive, 0 if there is none
TopActive(name) == MaxOf({g \in GuardIds : Active(g) /\ guards[g].name = name})

\* record that `by` wrote name: every other guard on name notes it
Touch(m, name, by) ==
    [g \in DOMAIN m |->
        IF guards[g].name = name /\ g # by
        THEN (IF Released(g) THEN [m[g] EXCEPT !.after = TRUE]
              ELSE [m[g] EXCEPT !.touchedBy = @ \cup {by}])
        ELSE m[g]]

TouchPending(p, name, except, by) ==
    [t \in Threads |->
        IF t # except /\ p[t].active /\ p[t].name = name
        THEN [p[t] EXCEPT !.touchedBy = @ \cup {by}]
        ELSE p[t]]

\* ---------------------------------------------------------------- Init
Init ==
    /\ env \in [EnvNames -> OptionSet]
    /\ guards = <<>>
    /\ scopes = [t \in Threads |-> <<<<>>>>]
    /\ mode = [t \in Threads |-> "run"]
    /\ pending = [t \in Threads |-> NoPending]
    /\ meta = <<>>
    /\ relLog = <<>>
    /\ last = [op |-> "init", g |-> 0, name |-> <<>>]
    /\ mutations = 0
    /\ env0 = env

\* ------------------------------------------------------------- actions
\* `{` : a nested block begins
EnterScope(t) ==
    /\ mode[t] = "run"
    /\ Len(scopes[t]) < MaxDepth
    /\ scopes' = [scopes EXCEPT ![t] = Append(@, <<>>)]
    /\ UNCHANGED <<env, guards, mode, pending, meta, relLog, last, mutations, env0>>

\* ScopedEnv::set, line 30
SetRead(t, name, value) ==
    /\ mode[t] = "run"
    /\ Len(guards) + PendingCount < MaxGuards
    /\ mode' = [mode EXCEPT ![t] = "set"]
    /\ pending' = [pending EXCEPT ![t] =
           [active |-> TRUE, name |-> name, value |-> value,
            old_value |-> CaptureOld(env, name),
            pre |-> Lookup(name), parent |-> TopActive(name),
            touchedBy |-> {}]]
    /\ UNCHANGED <<env, guards, scopes, meta, relLog, last, mutations, env0>>

\* ScopedEnv::set, lines 31-32, when set_var returns: the guard is built and
\* bound in the current block
SetWriteOk(t) ==
    /\ mode[t] = "set"
    /\ SetVarAccepts(pending[t].name, pending[t].value)
    /\ LET p == pending[t]
           id == Len(guards) + 1
       IN /\ env' = InstallNew(env, p.name, p.value)
          /\ guards' = Append(guards, NewGuard(p.name, p.old_value))
          /\ scopes' = [scopes EXCEPT ![t][Len(scopes[t])] = Append(@, id)]
          /\ meta' = Append(Touch(meta, p.name, id),
                            [pre |-> p.pre, val |-> p.value, parent |-> p.parent,
                             owner |-> t, touchedBy |-> p.touchedBy, after |-> FALSE])
          /\ pending' = [TouchPending(pending, p.name, t, id) EXCEPT ![t] = NoPending]
          /\ last' = [op |-> "acq", g |-> id, name |-> p.name]
    /\ mode' = [mode EXCEPT ![t] = "run"]
    /\ UNCHANGED <<relLog, mutations, env0>>

\* ScopedEnv::set, line 31, when set_var panics: line 32 is never reached
SetWritePanic(t) ==
    /\ mode[t] = "set"
    /\ ~SetVarAccepts(pending[t].name, pending[t].value)
    /\ mode' = [mode EXCEPT ![t] = "unwind"]
    /\ pending' = [pending EXCEPT ![t] = NoPending]
    /\ last' = [op |-> "fail", g |-> 0, name |-> pending[t].name]
    /\ UNCHANGED <<env, guards, scopes, meta, relLog, mutations, env0>>

\* Drop for ScopedEnv::drop, run on guard g
RunDrop(t, g, how) ==
    /\ env' = DropEnv(env, guards[g])
    /\ relLog' = relLog \o [i \in 1..Len(DropOps(guards[g])) |->
                               [g |-> g, how |-> how, op |-> DropOps(guards[g])[i].op,
                                before |-> Lookup(guards[g].name)]]
    /\ meta' = Touch(meta, guards[g].name, g)
    /\ pending' = TouchPending(pending, guards[g].name, t, g)
    /\ last' = [op |-> "rel", g |-> g, name |-> guards[g].name]

\* `}` : control falls off the end of the current block
ExitScope(t) ==
    /\ mode[t] = "run"
    /\ mode' = [mode EXCEPT ![t] = "exit"]
    /\ UNCHANGED <<env, guards, scopes, pending, meta, relLog, last, mutations, env0>>

\* `return` : control leaves every block of the function
Return(t) ==
    /\ mode[t] = "run"
    /\ mode' = [mode EXCEPT ![t] = "return"]
    /\ UNCHANGED <<env, guards, scopes, pending, meta, relLog, last, mutations, env0>>

\* a panic in the caller's code (a failed assertion of a test) starts unwinding
Panic(t) ==
    /\ mode[t] = "run"
    /\ mode' = [mode EXCEPT ![t] = "unwind"]
    /\ UNCHANGED <<env, guards, scopes, pending, meta, relLog, last, mutations, env0>>

Leaving(t) == mode[t] \in {"exit", "return", "unwind"}

\* leaving a block drops its guards, the last declared first
DropStep(t) ==
    /\ Leaving(t)
    /\ Len(scopes[t]) > 0
    /\ LET top == scopes[t][Len(scopes[t])]
       IN /\ Len(top) > 0
          /\ RunDrop(t, top[Len(top)], mode[t])
          /\ scopes' = [scopes EXCEPT ![t][Len(scopes[t])] = SubSeq(top, 1, Len(top) - 1)]
    /\ UNCHANGED <<guards, mode, mutations, env0>>

\* the block is left; a return or an unwinding goes on with the enclosing one
PopScope(t) ==
    /\ Leaving(t)
    /\ Len(scopes[t]) > 0
    /\ scopes[t][Len(scopes[t])] = <<>>
    /\ scopes' = [scopes EXCEPT ![t] = SubSeq(@, 1, Len(@) - 1)]
    /\ mode' = [mode EXCEPT ![t] =
           IF Len(scopes[t]) = 1
           THEN (IF mode[t] = "unwind" THEN "panicked" ELSE "done")
           ELSE (IF mode[t] = "exit" THEN "run" ELSE mode[t])]
    /\ UNCHANGED <<env, guards, pending, meta, relLog, last, mutations, env0>>

RemoveId(s, g) == SelectSeq(s, LAMBDA x : x # g)

\* drop(c) : the guard is moved out of its block and dropped at once
ExplicitDrop(t, g) ==
    /\ mode[t] = "run"
    /\ \E i \in 1..Len(scopes[t]) : \E j \in 1..Len(scopes[t][i]) : scopes[t][i][j] = g
    /\ RunDrop(t, g, "manual")
    /\ scopes' = [scopes EXCEPT ![t] = [i \in 1..Len(scopes[t]) |-> RemoveId(scopes[t][i], g)]]
    /\ UNCHANGED <<guards, mode, mutations, env0>>

\* other code calls env::set_var
ExtSetVar(name, value) ==
    /\ mutations < MaxMutations
    /\ mutations' = mutations + 1
    /\ env' = SetVar(env, name, value)
    /\ meta' = Touch(meta, name, 0)
    /\ pending' = TouchPending(pending, name, "none", 0)
    /\ last' = [op |-> "ext", g |-> 0, name |-> name]
    /\ UNCHANGED <<guards, scopes, mode, relLog, env0>>

\* other code calls env::remove_var
ExtRemoveVar(name) ==
    /\ mutations < MaxMutations
    /\ mutations' = mutations + 1
    /\ env' = RemoveVar(env, name)
    /\ meta' = Touch(meta, name, 0)
    /\ pending' = TouchPending(pending, name, "none", 0)
    /\ last' = [op |-> "ext", g |-> 0, name |-> name]
    /\ UNCHANGED <<guards, scopes, mode, relLog, env0>>

ThreadStep(t, names, values) ==
    \/ EnterScope(t)
    \/ \E name \in names, value \in values : SetRead(t, name, value)
    \/ SetWriteOk(t)
    \/ SetWritePanic(t)
    \/ ExitScope(t)
    \/ Return(t)
    \/ Panic(t)
    \/ DropStep(t)
    \/ PopScope(t)
    \/ \E g \in GuardIds : ExplicitDrop(t, g)

Next ==
    \/ \E t \in MainThreads : ThreadStep(t, NameSet, ValueSet)
    \/ \E name \in EnvNames, value \in EnvValues : ExtSetVar(name, value)
    \/ \E name \in EnvNames : ExtRemoveVar(name)

Spec == Init /\ [][Next]_vars

\* two threads that use guards on one variable, and no other code
RaceNames == {NameF}

RaceNext == \E t \in Threads : ThreadStep(t, RaceNames, ValueSet)

RaceInit == Init /\ env[NameG] = None

RaceSpec == RaceInit /\ [][RaceNext]_vars

\* ============================================================== claims
Name(g) == guards[g].name

\* nobody but g itself wrote g's variable, from g's read of it until now
Undisturbed(g) == meta[g].touchedBy = {} /\ ~meta[g].after

JustAcquired(g) == last.op = "acq" /\ last.g = g
JustReleased(g) == last.op = "rel" /\ last.g = g

\* C1: in the state in which ScopedEnv::set(name, value) has returned,
\* reading name yields exactly value, whatever name held before.
SetAndObserve ==
    \A g \in GuardIds : JustAcquired(g) => Lookup(Name(g)) = Some(meta[g].val)

SetAndObserveWitness ==
    \E g \in GuardIds :
        /\ JustAcquired(g)
        /\ meta[g].pre.tag = "Some"
        /\ meta[g].pre.val # meta[g].val

\* C2: a name that was absent when set read it, and that nobody else wrote
\* while the guard lived, is absent again once the guard has been dropped.
RestoreAbsent ==
    \A g \in GuardIds :
        (JustReleased(g) /\ meta[g].pre = None /\ meta[g].touchedBy = {})
            => Lookup(Name(g)) = None

RestoreAbsentWitness ==
    \E g \in GuardIds :
        JustReleased(g) /\ meta[g].pre = None /\ meta[g].touchedBy = {}

\* C3: a name that held old when set read it, with old different from the
\* new value, and that nobody else wrote while the guard lived, reads old
\* once the guard has been dropped.
RestorePresent ==
    \A g \in GuardIds :
        (/\ JustReleased(g)
         /\ meta[g].pre.tag = "Some"
         /\ meta[g].pre.val # meta[g].val
         /\ meta[g].touchedBy = {})
            => Lookup(Name(g)) = meta[g].pre

RestorePresentWitness ==
    \E g \in GuardIds :
        /\ JustReleased(g)
        /\ meta[g].pre.tag = "Some"
        /\ meta[g].pre.val # meta[g].val
        /\ meta[g].touchedBy = {}

\* C4: outer is a guard on n, inner a guard acquired on n while outer was
\* the live guard on n, and nobody else wrote n.  Then n reads inner's value
\* after inner's acquire, outer's value after inner's release, and its state
\* from before outer's acquire after outer's release.
NestedPair(outer, inner) ==
    /\ outer \in GuardIds /\ inner \in GuardIds
    /\ meta[inner].parent = outer
    /\ meta[inner].touchedBy = {}
    /\ meta[outer].touchedBy = {inner}

Nesting ==
    \A outer \in GuardIds, inner \in GuardIds :
        NestedPair(outer, inner) =>
            /\ JustAcquired(inner) => Lookup(Name(inner)) = Some(meta[inner].val)
            /\ (JustReleased(inner) /\ Active(outer))
                   => Lookup(Name(inner)) = Some(meta[outer].val)
            /\ (JustReleased(outer) /\ Released(inner))
                   => Lookup(Name(outer)) = meta[outer].pre

NestingWitness ==
    \E outer \in GuardIds, inner \in GuardIds :
        /\ NestedPair(outer, inner)
        /\ JustReleased(outer) /\ Released(inner)
        /\ meta[outer].pre # Some(meta[outer].val)
        /\ meta[outer].val # meta[inner].val

\* C5: a guard is Active while a block owns it and Released from then on.
\* An Active guard has made no release write, a Released one exactly one,
\* and a Released guard never becomes Active again.
ReleaseCount ==
    \A g \in GuardIds :
        /\ InScope(g) => Releases(g) = 0
        /\ ~InScope(g) => Releases(g) = 1

ExactlyOnceRelease ==
    /\ []ReleaseCount
    /\ [][\A g \in GuardIds : ~InScope(g) => ~InScope(g)']_vars

ExactlyOnceReleaseWitness ==
    /\ mode["t1"] = "done"
    /\ Len(guards) = MaxGuards
    /\ \E i \in 1..Len(relLog) : relLog[i].how = "manual"
    /\ \E i \in 1..Len(relLog) : relLog[i].how = "exit"

\* C6: once control has left the block that owned a guard, by falling off
\* its end, by return or by unwinding, the guard has been released and, if
\* nobody else wrote its variable, the override is no longer installed; a
\* thread that has ended owns no guard.
ScopeExitRelease ==
    /\ \A t \in Threads : mode[t] \in {"done", "panicked"} => scopes[t] = <<>>
    /\ \A g \in GuardIds :
           ~InScope(g) =>
               /\ Released(g)
               /\ Undisturbed(g) => Lookup(Name(g)) = meta[g].pre

ScopeExitReleaseWitness ==
    /\ mode["t1"] = "panicked"
    /\ \E i \in 1..Len(relLog) : relLog[i].how = "unwind"
    /\ \E i \in 1..Len(relLog) : relLog[i].how = "exit"
    /\ \A g \in GuardIds : Undisturbed(g) /\ meta[g].pre # Some(meta[g].val)

\* C7: in the state after a guard's release its variable is in the state
\* set read at acquire time, whatever anyone wrote to it in between.
UnconditionalRestore ==
    \A g \in GuardIds : JustReleased(g) => Lookup(Name(g)) = meta[g].pre

UnconditionalRestoreWitness ==
    \E g \in GuardIds :
        /\ JustReleased(g)
        /\ 0 \in meta[g].touchedBy
        /\ relLog[Len(relLog)].before # meta[g].pre
        /\ relLog[Len(relLog)].before # Some(meta[g].val)

\* C8: an acquire or a release of a guard on n changes no variable other
\* than n, and a guard whose variable nobody else wrote leaves it, once
\* released, in its state from before the acquire, in whatever order the
\* guards on other names were acquired and released.
IndependentRestore ==
    \A g \in GuardIds :
        (Released(g) /\ Undisturbed(g)) => Lookup(Name(g)) = meta[g].pre

Independence ==
    /\ [][\A m \in EnvNames :
             (last' # last /\ last'.op \in {"acq", "rel"} /\ m # last'.name)
                 => env'[m] = env[m]]_vars
    /\ []IndependentRestore

IndependenceWitness ==
    /\ Len(relLog) = 2
    /\ relLog[1].g = 1 /\ relLog[2].g = 2
    /\ Len(guards) = 2
    /\ Name(1) # Name(2)
    /\ Undisturbed(1) /\ Undisturbed(2)
    /\ meta[1].pre # Some(meta[1].val)
    /\ meta[2].pre # Some(meta[2].val)

\* C9: when the platform rejects the write of ScopedEnv::set (an empty
\* name, '=' or NUL in the name, NUL in the value) the call panics, the
\* environment is as before the call and no guard is built, so that no
\* guard ever exists for a rejected name or value.
Rejected(name, value) ==
    \/ name = <<>>
    \/ Contains(name, "=")
    \/ Contains(name, "NUL")
    \/ Contains(value, "NUL")

AllOrNothing ==
    /\ [][\A t \in Threads :
             (/\ mode[t] = "set"
              /\ mode'[t] # "set"
              /\ Rejected(pending[t].name, pending[t].value))
                 => /\ env' = env
                    /\ guards' = guards
                    /\ scopes' = scopes
                    /\ relLog' = relLog
                    /\ mode'[t] = "unwind"]_vars
    /\ [](\A g \in GuardIds : ~Rejected(Name(g), meta[g].val))

AllOrNothingWitness ==
    /\ last.op = "fail"
    /\ mode["t1"] = "unwind"
    /\ Len(guards) = 1
    /\ InScope(1)

\* C10: two threads have each acquired one guard on the same variable and
\* both have ended.  The variable is then in the state that the guard
\* released last read at its acquire.
BothEnded == \A t \in Threads : mode[t] \in {"done", "panicked"}

OnePerThread ==
    /\ Len(guards) = 2
    /\ meta[1].owner # meta[2].owner
    /\ Name(1) = Name(2)

RaceLastReleaseWins ==
    (BothEnded /\ OnePerThread) =>
        Lookup(Name(1)) = meta[relLog[Len(relLog)].g].pre

\* ... and that is not always the state from before both acquires
RaceLastReleaseWinsWitness ==
    /\ BothEnded /\ OnePerThread
    /\ Lookup(Name(1)) # env0[Name(1)]

\* C11: the prior state a guard stores is the state of its variable as set
\* read it, before set's own write: absent, or present with the value then
\* current.  For a guard acquired while another guard on the same variable
\* was alive, with no other writer, that is the other guard's value.
CaptureBeforeMutate ==
    \A g \in GuardIds :
        /\ guards[g].old_value = meta[g].pre
        /\ \A outer \in GuardIds :
               NestedPair(outer, g) => guards[g].old_value = Some(meta[outer].val)

CaptureBeforeMutateWitness ==
    \E outer \in GuardIds, inner \in GuardIds :
        /\ NestedPair(outer, inner)
        /\ InScope(outer) /\ InScope(inner)
        /\ meta[outer].pre # Some(meta[outer].val)
        /\ meta[inner].val # meta[outer].val

\* C12: while a guard is owned by a block no step changes its name or its
\* recorded prior state, and the name as_ref exposes is, from the acquire
\* on, the name the guard was acquired with.
GuardImmutable ==
    /\ [][\A g \in GuardIds : InScope(g) => guards'[g] = guards[g]]_vars
    /\ [](\A g \in GuardIds : JustAcquired(g) => AsRefName(guards[g]) = last.name)

GuardImmutableWitness ==
    \E g \in GuardIds, h \in GuardIds :
        /\ InScope(g)
        /\ 0 \in meta[g].touchedBy
        /\ h \in meta[g].touchedBy
        /\ Released(h)

\* C13: the call drop makes for a guard that set has built, the write-back
\* of the captured value or the removal, is one the platform accepts, so
\* that drop does not panic, whether it runs at a block's end or while a
\* panic unwinds.
ReleaseNeverFails ==
    \A g \in GuardIds : ~DropPanics(guards[g])

ReleaseNeverFailsWitness ==
    /\ mode["t1"] = "panicked"
    /\ \E i \in 1..Len(relLog) : relLog[i].how = "unwind" /\ relLog[i].op = "set"
    /\ \E i \in 1..Len(relLog) : relLog[i].how = "unwind" /\ relLog[i].op = "remove"

\* C14: no other code has written the environment, no guard was released
\* while a guard acquired later on the same name was still alive, and every
\* guard has been released.  Then every variable is as it was when the
\* program started.
AllReleased == \A g \in GuardIds : Released(g)

\* g wrote its variable again, by its release, during the life of a guard
\* acquired later on the same name
OutOfOrder ==
    \E g \in GuardIds, h \in GuardIds :
        g < h /\ Name(g) = Name(h) /\ g \in meta[h].touchedBy

BalancedRestoresAll ==
    (mutations = 0 /\ AllReleased /\ ~OutOfOrder) => env = env0

BalancedRestoresAllWitness ==
    /\ mutations = 0 /\ AllReleased /\ ~OutOfOrder
    /\ Len(guards) = MaxGuards
    /\ \A t \in Threads : ~pending[t].active
    /\ \E outer \in GuardIds, inner \in GuardIds :
           /\ meta[inner].parent = outer
           /\ meta[outer].pre # Some(meta[outer].val)
           /\ meta[outer].val # meta[inner].val

\* C15: outer and inner are guards on n, inner acquired while outer was
\* alive, outer released first, and nobody else wrote n.  After outer's
\* release n is in its state from before outer's acquire and inner is still
\* owned by its block; after inner's release n is present with outer's
\* value.  Neither release changes where its thread's control is: no panic
\* starts.
CrossedPair(outer, inner) ==
    /\ outer \in GuardIds /\ inner \in GuardIds
    /\ meta[inner].parent = outer
    /\ meta[inner].touchedBy = {outer}
    /\ meta[outer].touchedBy = {inner}

OutOfOrderStates ==
    \A outer \in GuardIds, inner \in GuardIds :
        CrossedPair(outer, inner) =>
            /\ (JustReleased(outer) /\ Active(inner))
                   => /\ Lookup(Name(outer)) = meta[outer].pre
                      /\ InScope(inner)
            /\ (JustReleased(inner) /\ Released(outer))
                   => Lookup(Name(inner)) = Some(meta[outer].val)

OutOfOrderRelease ==
    /\ []OutOfOrderStates
    /\ [][\A outer \in GuardIds, inner \in GuardIds :
             (/\ last' # last
              /\ CrossedPair(outer, inner)'
              /\ (JustReleased(outer)' \/ JustReleased(inner)'))
                 => mode' = mode]_vars

OutOfOrderReleaseWitness ==
    \E outer \in GuardIds, inner \in GuardIds :
        /\ CrossedPair(outer, inner)
        /\ JustReleased(inner) /\ Released(outer)
        /\ meta[outer].pre # Some(meta[outer].val)
        /\ meta[outer].val # meta[inner].val
        /\ Lookup(Name(outer)) # env0[Name(outer)]
        /\ mutations = 0

\* C16: a variable present with the empty string when set read it is
\* recorded as Some("") and, with no other writer, is present with the
\* empty string after the release; a variable that was absent is recorded
\* as None and is absent, not empty, after the release.
Empty == <<>>

EmptyIsNotAbsent ==
    \A g \in GuardIds :
        /\ meta[g].pre = Some(Empty) => guards[g].old_value = Some(Empty)
        /\ meta[g].pre = None => guards[g].old_value = None
        /\ (JustReleased(g) /\ meta[g].touchedBy = {}) =>
               /\ meta[g].pre = Some(Empty) => Lookup(Name(g)) = Some(Empty)
               /\ meta[g].pre = None => Lookup(Name(g)) # Some(Empty)

EmptyIsNotAbsentWitness ==
    \E g \in GuardIds :
        /\ JustReleased(g)
        /\ meta[g].touchedBy = {}
        /\ meta[g].pre = Some(Empty)
        /\ meta[g].val # Empty

\* C17: a guard acquired with the value its variable already holds: with
\* no other writer the variable reads that value while the guard is owned
\* by a block, and is still present with it after the release.
SameValue(g) == meta[g].pre = Some(meta[g].val) /\ meta[g].touchedBy = {}

UnchangedValue ==
    \A g \in GuardIds :
        SameValue(g) =>
            /\ InScope(g) => Lookup(Name(g)) = Some(meta[g].val)
            /\ JustReleased(g) => Lookup(Name(g)) = Some(meta[g].val)

UnchangedValueWitness ==
    \E g \in GuardIds :
        SameValue(g) /\ JustReleased(g) /\ meta[g].val # Empty

====
